---- MODULE Spec2Model ----
(***************************************************************************)
(* A model of the n8n workflow visualizer                                  *)
(* (src/lib/n8n_utils/visualization/visualizer.py): the graph builder      *)
(* WorkflowVisualizer.parse_workflow, the renderer WorkflowVisualizer.draw,*)
(* the two convenience entry points and the command line main.             *)
(*                                                                         *)
(* Python dicts are records/functions whose DOMAIN is the set of keys that *)
(* are present; Python strings that the code slices, splits or measures    *)
(* are sequences of one-character strings; an Optional value is <<>>       *)
(* (None) or <<v>>.                                                        *)
(***************************************************************************)
EXTENDS Integers, Sequences, FiniteSets, TLC

\* ------------------------------------------------------------------ bounds
\* node records per document
MaxNodes == 2
\* (source, category) entries of the connections mapping per document
MaxConns == 2
\* targets listed in one connection entry
MaxTargets == 2

\* ------------------------------------------------------- program constants
\* len(label) > 20
LabelLimit == 20
\* label[:18]
LabelKeep == 18
\* len(node['position']) >= 2
MinPositionLen == 2

\* ----------------------------------------------------------------- strings
TypeStart == <<"n", "8", "n", "-", "n", "o", "d", "e", "s", "-", "b", "a", "s", "e", ".", "s", "t", "a", "r", "t">>
TypeSet == <<"n", "8", "n", "-", "n", "o", "d", "e", "s", "-", "b", "a", "s", "e", ".", "s", "e", "t">>
TypeCustom == <<"w", "e", "b", "h", "o", "o", "k">>
NameSetX == <<"S", "e", "t", "X">>
LabelStart == <<"s", "t", "a", "r", "t">>
Name20 == <<"F", "e", "t", "c", "h", " ", "c", "u", "s", "t", "o", "m", "e", "r", " ", "d", "a", "t", "a", " ">>
Name21 == <<"F", "e", "t", "c", "h", " ", "c", "u", "s", "t", "o", "m", "e", "r", " ", "d", "a", "t", "a", " ", "1">>
Ellipsis == <<".", ".", ".">>

\* ------------------------------------------------------------ dict helpers
\* d.get(k, default)
Get(d, k, default) == IF k \in DOMAIN d THEN d[k] ELSE default

\* d[k] = v on a dict
Put(d, k, v) == [x \in DOMAIN d \cup {k} |-> IF x = k THEN v ELSE d[x]]

\* old.update(new)
Update(old, new) ==
    [k \in DOMAIN old \cup DOMAIN new |-> IF k \in DOMAIN new THEN new[k] ELSE old[k]]

\* the dict with no key
EmptyDict == <<>>

\* s.split('.')[-1]: what follows the last '.', the whole string when it has none
LastSegment(s) ==
    IF \A k \in 1..Len(s) : s[k] # "."
    THEN s
    ELSE LET k == CHOOSE j \in 1..Len(s) : s[j] = "." /\ \A m \in (j+1)..Len(s) : s[m] # "."
         IN SubSeq(s, k + 1, Len(s))

\* ------------------------------------------------------------ optionals
None == <<>>
Some(v) == <<v>>

\* ------------------------------------------------------ workflow documents
\* all sequences over S of length at most n
SeqsUpTo(S, n) == UNION {[1..k -> S] : k \in 0..n}

\* node records (dicts of the document's "nodes" list)
RecStart == [id |-> "1", type |-> TypeStart, position |-> <<0, 0>>]
RecSetX == [id |-> "2", type |-> TypeSet, name |-> NameSetX]
RecThree == [id |-> "3", type |-> TypeCustom, position |-> <<3, 4>>, parameters |-> [url |-> "u"]]
RecNoId == [type |-> TypeSet, name |-> NameSetX]
RecNoType == [id |-> "2", name |-> NameSetX]
RecDupOne == [id |-> "1", type |-> TypeCustom, name |-> Name21, position |-> <<5>>]
RecSetXAt == [id |-> "2", type |-> TypeSet, name |-> NameSetX, position |-> <<7, 1>>]
RecLong == [id |-> "2", type |-> TypeSet, name |-> Name21, position |-> <<3, 4>>]
RecTwenty == [id |-> "1", type |-> TypeStart, name |-> Name20, position |-> <<0, 0>>]

\* connection targets: a target reference dict, or (as n8n exports them) a list
\* of target reference dicts; "kind" is the Python type of the item
Ref(n) == [kind |-> "dict", node |-> n]
Nested(items) == [kind |-> "list", items |-> items]

\* one (source, category, targets) entry of the connections mapping, in the
\* order the two nested .items() loops visit them
Entry(s, c, t) == [source |-> s, category |-> c, targets |-> t]

Categories == {"main", "alt"}

\* a connections mapping is a dict of dicts: (source, category) keys are
\* distinct and the entries of one source are contiguous
IsConnections(cs) ==
    /\ \A a, b \in 1..Len(cs) :
          a # b => ~(cs[a].source = cs[b].source /\ cs[a].category = cs[b].category)
    /\ \A a, b, c \in 1..Len(cs) :
          (a < b /\ b < c /\ cs[a].source = cs[c].source) => cs[b].source = cs[a].source

ConnectionsOver(sources, targetLists) ==
    {cs \in SeqsUpTo({Entry(s, c, t) : s \in sources, c \in Categories, t \in targetLists},
                     MaxConns) : IsConnections(cs)}

Doc(nodes, conns) == [name |-> "T", nodes |-> nodes, connections |-> conns]
DocNoNodes(conns) == [name |-> "T", connections |-> conns]
DocNoConnections(nodes) == [nodes |-> nodes]

\* the round-trip document of the specification
RoundTripDoc ==
    Doc(<<RecStart, RecSetX>>, <<Entry("1", "main", <<Nested(<<Ref("2")>>)>>)>>)

\* the same workflow with the target reference listed directly
FlatDoc == Doc(<<RecStart, RecSetXAt>>, <<Entry("1", "main", <<Ref("2")>>)>>)

\* ------------------------------------------------------------------- state
VARIABLES
    entry,        \* the entry point that was called
    pc,           \* the position in the code
    argv,         \* the command line (main)
    env,          \* the file system and display the process runs in
    workflow,     \* self.workflow, None before the document is loaded
    graph_nodes,  \* self.graph: vertex -> attribute dict
    graph_edges,  \* self.graph: <<u, v>> -> attribute dict
    pos,          \* self.pos
    ni, ci, ti,   \* loop positions of parse_workflow
    output_file,  \* the output_file argument handed down
    show,         \* the show argument handed down
    figures,      \* the figures pyplot holds open
    labels,       \* the labels dict given to draw_networkx_labels
    saved,        \* the files savefig wrote
    printed,      \* what was printed
    exc,          \* the exception that was raised, NoExc when none was
    exit_status   \* the status sys.exit was called with

vars == <<entry, pc, argv, env, workflow, graph_nodes, graph_edges, pos, ni, ci, ti,
          output_file, show, figures, labels, saved, printed, exc, exit_status>>

NoExc == [type |-> "none", what |-> "", at |-> ""]
Raise(type, what) == [type |-> type, what |-> what, at |-> pc]

NoArgv == [ok |-> TRUE, workflow_file |-> <<>>, output |-> None, no_show |-> FALSE]
NoEnv == [exists |-> TRUE, content |-> None, save_ok |-> TRUE, show_ok |-> TRUE]

TheDoc == workflow[1]
Nodes == Get(TheDoc, "nodes", <<>>)
Connections == Get(TheDoc, "connections", <<>>)

\* ------------------------------------------------- WorkflowVisualizer.__init__
Constructed(doc) ==
    /\ workflow = Some(doc)
    /\ graph_nodes = EmptyDict
    /\ graph_edges = EmptyDict
    /\ pos = EmptyDict

\* --------------------------------------------------------- parse_workflow
\* node.get('name', node_type.split('.')[-1])
NodeName(node) == Get(node, "name", LastSegment(node.type))

\* graph.add_node(n, **attrs): creates the vertex or updates its attributes
add_node(g, n, attrs) == Put(g, n, Update(Get(g, n, EmptyDict), attrs))

\* graph.add_edge(u, v, **attrs) on the vertex dict: both ends become vertices
add_edge_nodes(g, u, v) ==
    LET g1 == IF u \in DOMAIN g THEN g ELSE Put(g, u, EmptyDict)
    IN IF v \in DOMAIN g1 THEN g1 ELSE Put(g1, v, EmptyDict)

\* add_edge as it would be if an edge added again kept its first attributes
add_edge_keep_first(e, u, v, attrs) ==
    IF <<u, v>> \in DOMAIN e THEN e ELSE Put(e, <<u, v>>, attrs)

\* graph.add_edge(u, v, **attrs) on the edge dict of a DiGraph: one edge per
\* (u, v), its attributes updated when it is added again
add_edge(e, u, v, attrs) == Put(e, <<u, v>>, Update(Get(e, <<u, v>>, EmptyDict), attrs))

\* 'position' in node and len(node['position']) >= 2
HasPosition(node) == "position" \in DOMAIN node /\ Len(node.position) >= MinPositionLen

\* (node['position'][0], -node['position'][1])
StoredPosition(node) == <<node.position[1], -node.position[2]>>

\* AddNode as it would be if the type were read with node.get('type', 'unknown')
AddNodeDefaultType ==
    /\ pc = "parse_nodes"
    /\ ni <= Len(Nodes)
    /\ LET node == Nodes[ni]
           node_type == Get(node, "type", <<"u", "n", "k", "n", "o", "w", "n">>)
       IN
         IF "id" \notin DOMAIN node
         THEN /\ exc' = Raise("KeyError", "id")
              /\ pc' = "raised"
              /\ UNCHANGED <<graph_nodes, pos, ni>>
         ELSE /\ graph_nodes' = add_node(graph_nodes, node.id,
                                   [label |-> Get(node, "name", LastSegment(node_type)),
                                    type |-> node_type,
                                    parameters |-> Get(node, "parameters", EmptyDict)])
              /\ pos' = IF HasPosition(node)
                        THEN Put(pos, node.id, StoredPosition(node))
                        ELSE pos
              /\ ni' = ni + 1
              /\ UNCHANGED <<pc, exc>>
    /\ UNCHANGED <<entry, argv, env, workflow, graph_edges, ci, ti, output_file, show,
                   figures, labels, saved, printed, exit_status>>

\* one iteration of "for node in self.workflow.get('nodes', [])"
AddNode ==
    /\ pc = "parse_nodes"
    /\ ni <= Len(Nodes)
    /\ LET node == Nodes[ni] IN
         IF "id" \notin DOMAIN node
         THEN /\ exc' = Raise("KeyError", "id")
              /\ pc' = "raised"
              /\ UNCHANGED <<graph_nodes, pos, ni>>
         ELSE IF "type" \notin DOMAIN node
         THEN /\ exc' = Raise("KeyError", "type")
              /\ pc' = "raised"
              /\ UNCHANGED <<graph_nodes, pos, ni>>
         ELSE /\ graph_nodes' = add_node(graph_nodes, node.id,
                                   [label |-> NodeName(node),
                                    type |-> node.type,
                                    parameters |-> Get(node, "parameters", EmptyDict)])
              /\ pos' = IF HasPosition(node)
                        THEN Put(pos, node.id, StoredPosition(node))
                        ELSE pos
              /\ ni' = ni + 1
              /\ UNCHANGED <<pc, exc>>
    /\ UNCHANGED <<entry, argv, env, workflow, graph_edges, ci, ti, output_file, show,
                   figures, labels, saved, printed, exit_status>>

\* the node loop is exhausted: connections = self.workflow.get('connections', {})
NodesDone ==
    /\ pc = "parse_nodes"
    /\ ni > Len(Nodes)
    /\ pc' = "parse_edges"
    /\ ci' = 1
    /\ ti' = 1
    /\ UNCHANGED <<entry, argv, env, workflow, graph_nodes, graph_edges, pos, ni,
                   output_file, show, figures, labels, saved, printed, exc, exit_status>>

\* AddEdge as it would be if the edge were added to the category instead of
\* the target: add_edge(source_node_id, connection_type, ...)
AddEdgeToCategory ==
    /\ pc = "parse_edges"
    /\ ci <= Len(Connections)
    /\ ti <= Len(Connections[ci].targets)
    /\ LET e == Connections[ci]
           connection == e.targets[ti]
       IN IF connection.kind = "list"
          THEN /\ exc' = Raise("TypeError", "list indices")
               /\ pc' = "raised"
               /\ UNCHANGED <<graph_nodes, graph_edges, ti>>
          ELSE IF "node" \notin DOMAIN connection
          THEN /\ exc' = Raise("KeyError", "node")
               /\ pc' = "raised"
               /\ UNCHANGED <<graph_nodes, graph_edges, ti>>
          ELSE /\ graph_nodes' = add_edge_nodes(graph_nodes, e.source, e.category)
               /\ graph_edges' = add_edge(graph_edges, e.source, e.category,
                                          [connection_type |-> connection.node])
               /\ ti' = ti + 1
               /\ UNCHANGED <<pc, exc>>
    /\ UNCHANGED <<entry, argv, env, workflow, pos, ni, ci, output_file, show,
                   figures, labels, saved, printed, exit_status>>

\* one iteration of "for connection in connection_list"
AddEdge ==
    /\ pc = "parse_edges"
    /\ ci <= Len(Connections)
    /\ ti <= Len(Connections[ci].targets)
    /\ LET e == Connections[ci]
           connection == e.targets[ti]
       IN IF connection.kind = "list"
          THEN \* connection['node'] on a list
               /\ exc' = Raise("TypeError", "list indices")
               /\ pc' = "raised"
               /\ UNCHANGED <<graph_nodes, graph_edges, ti>>
          ELSE IF "node" \notin DOMAIN connection
          THEN /\ exc' = Raise("KeyError", "node")
               /\ pc' = "raised"
               /\ UNCHANGED <<graph_nodes, graph_edges, ti>>
          ELSE /\ graph_nodes' = add_edge_nodes(graph_nodes, e.source, connection.node)
               /\ graph_edges' = add_edge(graph_edges, e.source, connection.node,
                                          [connection_type |-> e.category])
               /\ ti' = ti + 1
               /\ UNCHANGED <<pc, exc>>
    /\ UNCHANGED <<entry, argv, env, workflow, pos, ni, ci, output_file, show,
                   figures, labels, saved, printed, exit_status>>

\* the target list of one (source, category) entry is exhausted
NextEntry ==
    /\ pc = "parse_edges"
    /\ ci <= Len(Connections)
    /\ ti > Len(Connections[ci].targets)
    /\ ci' = ci + 1
    /\ ti' = 1
    /\ UNCHANGED <<entry, pc, argv, env, workflow, graph_nodes, graph_edges, pos, ni,
                   output_file, show, figures, labels, saved, printed, exc, exit_status>>

\* parse_workflow returns
ParseReturn ==
    /\ pc = "parse_edges"
    /\ ci > Len(Connections)
    /\ pc' = "built"
    /\ UNCHANGED <<entry, argv, env, workflow, graph_nodes, graph_edges, pos, ni, ci, ti,
                   output_file, show, figures, labels, saved, printed, exc, exit_status>>

NextBuild == AddNode \/ NodesDone \/ AddEdge \/ NextEntry \/ ParseReturn

\* ------------------------------------------ documents given to parse_workflow
BuildRecords == {RecStart, RecSetX, RecThree, RecNoId, RecNoType, RecDupOne}
BuildTargets == SeqsUpTo({Ref("2"), Ref("9")}, MaxTargets) \cup {<<Nested(<<Ref("2")>>)>>}

BuildDocs ==
    {Doc(n, c) : n \in SeqsUpTo(BuildRecords, MaxNodes),
                 c \in {<<>>, <<Entry("1", "main", <<Ref("2")>>)>>}}
    \cup {Doc(n, c) : n \in {<<RecStart, RecSetX>>, <<RecSetX, RecThree, RecStart>>},
                      c \in ConnectionsOver({"1"}, BuildTargets)
                            \cup ConnectionsOver({"1", "9"}, {<<Ref("2")>>, <<Ref("9"), Ref("2")>>})}
    \cup {DocNoNodes(<<>>), DocNoNodes(<<Entry("1", "main", <<Ref("2")>>)>>),
          DocNoConnections(<<RecStart>>), RoundTripDoc, FlatDoc}

\* WorkflowVisualizer(doc).parse_workflow()
InitBuild ==
    /\ entry = "parse_workflow"
    /\ pc = "parse_nodes"
    /\ argv = NoArgv
    /\ env = NoEnv
    /\ \E doc \in BuildDocs : Constructed(doc)
    /\ ni = 1 /\ ci = 1 /\ ti = 1
    /\ output_file = None
    /\ show = FALSE
    /\ figures = 0
    /\ labels = None
    /\ saved = {}
    /\ printed = <<>>
    /\ exc = NoExc
    /\ exit_status = None

SpecBuild == InitBuild /\ [][NextBuild]_vars

\* ------------------------------------------------------ WorkflowVisualizer.draw
Vertices == DOMAIN graph_nodes
Edges == DOMAIN graph_edges

\* "if output_file:" -- None and the empty string are both false
Truthy(opt) == opt # None /\ opt[1] # <<>>

\* the coordinate nx.spring_layout gives a vertex (its value is never read by
\* the code; only its presence is)
SpringPoint == <<0, 0>>

\* nx.spring_layout(self.graph, k=0.5, iterations=50): a coordinate for
\* every vertex of the graph
spring_layout(g) == [v \in DOMAIN g |-> SpringPoint]

\* "if not self.pos": only an empty position dict is replaced by a layout
Layout(g, p) == IF p = EmptyDict THEN spring_layout(g) ELSE p

\* _get_node_label: labels over 20 characters are cut to 18 and "..."
_get_node_label(node_data) ==
    LET label == Get(node_data, "label", <<>>)
    IN IF Len(label) > LabelLimit
       THEN SubSeq(label, 1, LabelKeep) \o Ellipsis
       ELSE label

\* labels = {n: d['label'] for n, d in self.graph.nodes(data=True)}
DrawnLabels(g) == [n \in DOMAIN g |-> g[n]["label"]]

\* visualize_workflow calls draw once parse_workflow returned; draw starts
\* with the layout decision
DrawLayout ==
    /\ pc = "built"
    /\ entry # "parse_workflow"
    /\ pos' = Layout(graph_nodes, pos)
    /\ pc' = "figure"
    /\ UNCHANGED <<entry, argv, env, workflow, graph_nodes, graph_edges, ni, ci, ti,
                   output_file, show, figures, labels, saved, printed, exc, exit_status>>

\* plt.figure(figsize=(16, 12))
Figure ==
    /\ pc = "figure"
    /\ figures' = figures + 1
    /\ pc' = "draw_edges"
    /\ UNCHANGED <<entry, argv, env, workflow, graph_nodes, graph_edges, pos, ni, ci, ti,
                   output_file, show, labels, saved, printed, exc, exit_status>>

\* nx.draw_networkx_edges: looks up pos[u], pos[v] of every edge
DrawEdges ==
    /\ pc = "draw_edges"
    /\ IF \E e \in Edges : e[1] \notin DOMAIN pos \/ e[2] \notin DOMAIN pos
       THEN exc' = Raise("KeyError", "position") /\ pc' = "raised"
       ELSE exc' = exc /\ pc' = "draw_nodes"
    /\ UNCHANGED <<entry, argv, env, workflow, graph_nodes, graph_edges, pos, ni, ci, ti,
                   output_file, show, figures, labels, saved, printed, exit_status>>

\* the loop drawing each vertex and its type annotation: node_data.get('type',
\* 'unknown') never fails, pos[node_id] fails for a vertex without coordinate
DrawNodes ==
    /\ pc = "draw_nodes"
    /\ IF \E v \in Vertices : v \notin DOMAIN pos
       THEN exc' = Raise("NetworkXError", "position") /\ pc' = "raised"
       ELSE exc' = exc /\ pc' = "draw_labels"
    /\ UNCHANGED <<entry, argv, env, workflow, graph_nodes, graph_edges, pos, ni, ci, ti,
                   output_file, show, figures, labels, saved, printed, exit_status>>

\* DrawLabels as it would be if the labels were read with d.get('label', '')
DrawLabelsLenient ==
    /\ pc = "draw_labels"
    /\ exc' = exc
    /\ pc' = "draw_edge_labels"
    /\ labels' = Some([n \in Vertices |-> Get(graph_nodes[n], "label", <<>>)])
    /\ UNCHANGED <<entry, argv, env, workflow, graph_nodes, graph_edges, pos, ni, ci, ti,
                   output_file, show, figures, saved, printed, exit_status>>

\* the labels dict is built with d['label'] and given to nx.draw_networkx_labels
DrawLabels ==
    /\ pc = "draw_labels"
    /\ IF \E v \in Vertices : "label" \notin DOMAIN graph_nodes[v]
       THEN exc' = Raise("KeyError", "label") /\ pc' = "raised" /\ labels' = labels
       ELSE exc' = exc /\ pc' = "draw_edge_labels" /\ labels' = Some(DrawnLabels(graph_nodes))
    /\ UNCHANGED <<entry, argv, env, workflow, graph_nodes, graph_edges, pos, ni, ci, ti,
                   output_file, show, figures, saved, printed, exit_status>>

\* edge labels (d.get('connection_type', '')), title, axis, tight_layout
DrawEdgeLabels ==
    /\ pc = "draw_edge_labels"
    /\ pc' = "save"
    /\ UNCHANGED <<entry, argv, env, workflow, graph_nodes, graph_edges, pos, ni, ci, ti,
                   output_file, show, figures, labels, saved, printed, exc, exit_status>>

\* if output_file: plt.savefig(...); print(...)
Save ==
    /\ pc = "save"
    /\ IF ~Truthy(output_file)
       THEN pc' = "show" /\ UNCHANGED <<saved, printed, exc>>
       ELSE IF env.save_ok
       THEN /\ saved' = saved \cup {output_file[1]}
            /\ printed' = Append(printed, [kind |-> "saved", arg |-> output_file[1]])
            /\ pc' = "show"
            /\ exc' = exc
       ELSE /\ exc' = Raise("OSError", "savefig")
            /\ pc' = "raised"
            /\ UNCHANGED <<saved, printed>>
    /\ UNCHANGED <<entry, argv, env, workflow, graph_nodes, graph_edges, pos, ni, ci, ti,
                   output_file, show, figures, labels, exit_status>>

\* if show: plt.show() else: plt.close().  After plt.show() the figure is
\* either still open (non-interactive backend) or was closed with its window.
ShowOrClose ==
    /\ pc = "show"
    /\ IF show
       THEN IF env.show_ok
            THEN /\ figures' \in {figures, figures - 1}
                 /\ pc' = "drawn"
                 /\ exc' = exc
            ELSE /\ exc' = Raise("RuntimeError", "show")
                 /\ pc' = "raised"
                 /\ figures' = figures
       ELSE /\ figures' = figures - 1
            /\ pc' = "drawn"
            /\ exc' = exc
    /\ UNCHANGED <<entry, argv, env, workflow, graph_nodes, graph_edges, pos, ni, ci, ti,
                   output_file, show, labels, saved, printed, exit_status>>

NextDraw ==
    \/ NextBuild
    \/ DrawLayout \/ Figure \/ DrawEdges \/ DrawNodes \/ DrawLabels \/ DrawEdgeLabels
    \/ Save \/ ShowOrClose

\* ------------------------------------------ calls of visualize_workflow
OutPng == <<"o", "u", "t", ".", "p", "n", "g">>

DrawRecords == {RecStart, RecSetX, RecThree, RecLong, RecTwenty, RecNoType}
DrawConnections ==
    { <<>>,
      <<Entry("1", "main", <<Ref("2")>>)>>,
      <<Entry("1", "main", <<Ref("9")>>)>>,
      <<Entry("9", "main", <<Ref("2")>>)>>,
      <<Entry("9", "main", <<>>)>>,
      <<Entry("1", "main", <<Nested(<<Ref("2")>>)>>)>> }

DrawDocs ==
    {Doc(n, c) : n \in SeqsUpTo(DrawRecords, MaxNodes), c \in DrawConnections}
    \cup {DocNoNodes(c) : c \in DrawConnections}
    \cup {RoundTripDoc, FlatDoc}

\* visualize_workflow(doc, output_file, show)
InitDraw ==
    /\ entry = "visualize_workflow"
    /\ pc = "parse_nodes"
    /\ argv = NoArgv
    /\ \E s \in BOOLEAN, w \in BOOLEAN :
          env = [exists |-> TRUE, content |-> None, save_ok |-> s, show_ok |-> w]
    /\ \E doc \in DrawDocs : Constructed(doc)
    /\ ni = 1 /\ ci = 1 /\ ti = 1
    /\ output_file \in {None, Some(OutPng)}
    /\ show \in BOOLEAN
    /\ figures = 0
    /\ labels = None
    /\ saved = {}
    /\ printed = <<>>
    /\ exc = NoExc
    /\ exit_status = None

SpecDraw == InitDraw /\ [][NextDraw]_vars

\* ------------------------------------------------- visualize_workflow_file
PathFlow == <<"f", "l", "o", "w", ".", "j", "s", "o", "n">>
PathDirFlow == <<"i", "n", "/", "f", "l", "o", "w", ".", "j", "s", "o", "n">>
PathNoExt == <<"i", "n", ".", "d", "/", "w", "f">>
PathDots == <<"a", ".", "b", ".", "j", "s", "o", "n">>
PathHidden == <<".", "j", "s", "o", "n">>
Suffix == <<"_", "v", "i", "s", "u", "a", "l", "i", "z", "a", "t", "i", "o", "n", ".", "p", "n", "g">>

\* the last index of character c in s, 0 when it does not occur (str.rfind + 1)
LastIndexOf(s, c) ==
    IF \A k \in 1..Len(s) : s[k] # c
    THEN 0
    ELSE CHOOSE j \in 1..Len(s) : s[j] = c /\ \A m \in (j+1)..Len(s) : s[m] # c

\* os.path.basename(p): what follows the last '/'
basename(p) == SubSeq(p, LastIndexOf(p, "/") + 1, Len(p))

\* os.path.splitext(p)[0] of a name without '/': the name up to its last '.',
\* unless only dots precede that '.'
splitext_root(p) ==
    LET dot == LastIndexOf(p, ".")
    IN IF dot > 0 /\ \E k \in 1..(dot - 1) : p[k] # "."
       THEN SubSeq(p, 1, dot - 1)
       ELSE p

\* f"{base_name}_visualization.png"
DefaultOutputName(workflow_file) == splitext_root(basename(workflow_file)) \o Suffix

\* ChosenOutput as it would be with "or" for "and"
ChosenOutputEither(workflow_file, out, shw) ==
    IF ~Truthy(out) \/ ~shw THEN Some(DefaultOutputName(workflow_file)) ELSE out

\* "if not output_file and not show:" chooses the derived name
ChosenOutput(workflow_file, out, shw) ==
    IF ~Truthy(out) /\ ~shw THEN Some(DefaultOutputName(workflow_file)) ELSE out

\* ---------------------------------------------------------------------- main
\* the exit status of argparse when it rejects the command line
UsageStatus == 2

\* parser.parse_args(): a rejected command line prints the usage and exits
ParseArgs ==
    /\ pc = "main"
    /\ IF argv.ok
       THEN pc' = "check_exists" /\ UNCHANGED <<printed, exit_status>>
       ELSE /\ printed' = Append(printed, [kind |-> "usage", arg |-> <<>>])
            /\ exit_status' = Some(UsageStatus)
            /\ pc' = "exit"
    /\ UNCHANGED <<entry, argv, env, workflow, graph_nodes, graph_edges, pos, ni, ci, ti,
                   output_file, show, figures, labels, saved, exc>>

\* if not os.path.exists(args.workflow_file): print; sys.exit(1)
\* otherwise the try block calls visualize_workflow_file(file, output, not no_show)
CheckExists ==
    /\ pc = "check_exists"
    /\ IF ~env.exists
       THEN /\ printed' = Append(printed, [kind |-> "not_found", arg |-> argv.workflow_file])
            /\ exit_status' = Some(1)
            /\ pc' = "exit"
            /\ UNCHANGED <<output_file, show>>
       ELSE /\ output_file' = argv.output
            /\ show' = ~argv.no_show
            /\ pc' = "load"
            /\ UNCHANGED <<printed, exit_status>>
    /\ UNCHANGED <<entry, argv, env, workflow, graph_nodes, graph_edges, pos, ni, ci, ti,
                   figures, labels, saved, exc>>

\* with open(workflow_file) as f: workflow_data = json.load(f)
Load ==
    /\ pc = "load"
    /\ IF env.content = None
       THEN exc' = Raise("ValueError", "load") /\ pc' = "raised" /\ workflow' = workflow
       ELSE exc' = exc /\ pc' = "loaded" /\ workflow' = env.content
    /\ UNCHANGED <<entry, argv, env, graph_nodes, graph_edges, pos, ni, ci, ti,
                   output_file, show, figures, labels, saved, printed, exit_status>>

\* the default output name, then visualize_workflow(workflow_data, output_file,
\* show), which constructs the visualizer and calls parse_workflow
CallVisualize ==
    /\ pc = "loaded"
    /\ output_file' = ChosenOutput(argv.workflow_file, output_file, show)
    /\ graph_nodes' = EmptyDict
    /\ graph_edges' = EmptyDict
    /\ pos' = EmptyDict
    /\ pc' = "parse_nodes"
    /\ UNCHANGED <<entry, argv, env, workflow, ni, ci, ti, show, figures, labels, saved,
                   printed, exc, exit_status>>

\* Catch as it would be without the sys.exit(1) of the handler
CatchWithoutExit ==
    /\ pc = "raised"
    /\ entry = "main"
    /\ printed' = Append(printed, [kind |-> "error", arg |-> <<exc.type, exc.what>>])
    /\ exit_status' = Some(0)
    /\ pc' = "exit"
    /\ UNCHANGED <<entry, argv, env, workflow, graph_nodes, graph_edges, pos, ni, ci, ti,
                   output_file, show, figures, labels, saved, exc>>

\* except Exception as e: print(f"Error visualizing workflow: {str(e)}"); sys.exit(1)
Catch ==
    /\ pc = "raised"
    /\ entry = "main"
    /\ printed' = Append(printed, [kind |-> "error", arg |-> <<exc.type, exc.what>>])
    /\ exit_status' = Some(1)
    /\ pc' = "exit"
    /\ UNCHANGED <<entry, argv, env, workflow, graph_nodes, graph_edges, pos, ni, ci, ti,
                   output_file, show, figures, labels, saved, exc>>

\* the try block ends; main returns and the interpreter exits with status 0
MainReturn ==
    /\ pc = "drawn"
    /\ entry = "main"
    /\ exit_status' = Some(0)
    /\ pc' = "exit"
    /\ UNCHANGED <<entry, argv, env, workflow, graph_nodes, graph_edges, pos, ni, ci, ti,
                   output_file, show, figures, labels, saved, printed, exc>>

Next ==
    \/ ParseArgs \/ CheckExists \/ Load \/ CallVisualize
    \/ NextDraw
    \/ Catch \/ MainReturn

\* ----------------------------------------------------------- runs of main
Paths == {PathFlow, PathDirFlow, PathNoExt, PathDots, PathHidden}

FileDocs ==
    { FlatDoc, RoundTripDoc, Doc(<<>>, <<>>), DocNoNodes(<<>>),
      Doc(<<RecStart, RecSetX>>, <<Entry("1", "main", <<Ref("2")>>)>>),
      Doc(<<RecSetX>>, <<Entry("2", "main", <<Ref("9")>>)>>),
      Doc(<<RecNoType>>, <<>>) }

Init ==
    /\ entry = "main"
    /\ pc = "main"
    /\ argv \in [ok : BOOLEAN, workflow_file : Paths,
                 output : {None, Some(<<>>), Some(OutPng)}, no_show : BOOLEAN]
    /\ env \in [exists : BOOLEAN, content : {None} \cup {Some(d) : d \in FileDocs},
                save_ok : BOOLEAN, show_ok : BOOLEAN]
    /\ workflow = None
    /\ graph_nodes = EmptyDict
    /\ graph_edges = EmptyDict
    /\ pos = EmptyDict
    /\ ni = 1 /\ ci = 1 /\ ti = 1
    /\ output_file = None
    /\ show = FALSE
    /\ figures = 0
    /\ labels = None
    /\ saved = {}
    /\ printed = <<>>
    /\ exc = NoExc
    /\ exit_status = None

Spec == Init /\ [][Next]_vars

\* ================================================================== claims
\* ids of the document's node records (of those that have one)
RecordIds == {Nodes[k].id : k \in {j \in 1..Len(Nodes) : "id" \in DOMAIN Nodes[j]}}

\* every node record has the keys parse_workflow reads with node[...]
RecordsWellFormed == \A k \in 1..Len(Nodes) : {"id", "type"} \subseteq DOMAIN Nodes[k]

\* every connection target is a target reference dict with a node key
TargetsFlat ==
    \A a \in 1..Len(Connections) : \A b \in 1..Len(Connections[a].targets) :
        /\ Connections[a].targets[b].kind = "dict"
        /\ "node" \in DOMAIN Connections[a].targets[b]

InParse == pc \in {"parse_nodes", "parse_edges"}
ParseEnded == pc = "built" \/ (pc = "raised" /\ exc.at \in {"parse_nodes", "parse_edges"})

\* C1 (as claimed): parse_workflow on the round-trip document completes with
\* the vertices "1" (label "start") and "2" (label "SetX") and the single
\* edge 1 -> 2 tagged "main".
C1_RoundTripBuilds ==
    (workflow = Some(RoundTripDoc) /\ ParseEnded) =>
        /\ pc = "built"
        /\ Vertices = {"1", "2"}
        /\ graph_nodes["1"]["label"] = LabelStart
        /\ graph_nodes["2"]["label"] = NameSetX
        /\ Edges = {<<"1", "2">>}
        /\ graph_edges[<<"1", "2">>]["connection_type"] = "main"

\* C2 (as claimed): after parse_workflow every listed target of every
\* connection entry is an edge source -> target whose connection_type is that
\* entry's category.
C2_EveryEntryTagged ==
    pc = "built" =>
        \A a \in 1..Len(Connections) : \A b \in 1..Len(Connections[a].targets) :
            LET e == Connections[a]
                uv == <<e.source, e.targets[b].node>>
            IN uv \in Edges /\ graph_edges[uv]["connection_type"] = e.category

\* the last connection entry that lists target v from source u
LastListing(u, v) ==
    CHOOSE a \in 1..Len(Connections) :
        /\ Connections[a].source = u
        /\ \E b \in 1..Len(Connections[a].targets) : Connections[a].targets[b].node = v
        /\ \A c \in (a + 1)..Len(Connections) :
              ~(Connections[c].source = u
                /\ \E b \in 1..Len(Connections[c].targets) : Connections[c].targets[b].node = v)

\* C2 (amended): after parse_workflow every listed target of every connection
\* entry is an edge source -> target, the graph has no other edge, and the
\* edge's connection_type is the category of the last entry that lists that
\* (source, target) pair.
C2_LastEntryTags ==
    pc = "built" =>
        /\ \A a \in 1..Len(Connections) : \A b \in 1..Len(Connections[a].targets) :
              LET e == Connections[a]
                  uv == <<e.source, e.targets[b].node>>
              IN /\ uv \in Edges
                 /\ graph_edges[uv]["connection_type"]
                       = Connections[LastListing(uv[1], uv[2])].category
        /\ \A uv \in Edges :
              \E a \in 1..Len(Connections) : \E b \in 1..Len(Connections[a].targets) :
                  Connections[a].source = uv[1] /\ Connections[a].targets[b].node = uv[2]

\* C2 witness: a built graph whose edge 1 -> 2 was listed under "main" and then
\* under "alt"
C2_Witness ==
    /\ pc = "built"
    /\ Len(Connections) = 2
    /\ Connections[1] = Entry("1", "main", <<Ref("2")>>)
    /\ Connections[2] = Entry("1", "alt", <<Ref("2"), Ref("2")>>)
    /\ graph_edges[<<"1", "2">>]["connection_type"] = "alt"

\* C3 (as claimed): the label text given to the label-drawing step is
\* _get_node_label of the vertex (18 characters and "..." for labels over 20
\* characters, the label itself otherwise), and the vertex keeps its label.
C3_LabelsTruncated ==
    labels # None =>
        \A v \in Vertices :
            LET label == graph_nodes[v]["label"]
            IN /\ labels[1][v] = IF Len(label) > LabelLimit
                                 THEN SubSeq(label, 1, LabelKeep) \o Ellipsis
                                 ELSE label
               /\ \E k \in 1..Len(Nodes) : Nodes[k].id = v /\ NodeName(Nodes[k]) = label

\* C4 (as claimed): when draw reaches its drawing steps every vertex has a
\* layout coordinate.
C4_EveryVertexPlaced ==
    pc \in {"figure", "draw_edges", "draw_nodes", "draw_labels"} => Vertices \subseteq DOMAIN pos

\* the run ended through one of main's sys.exit calls or its return
Exited == pc = "exit"
ErrorsPrinted == {k \in 1..Len(printed) : printed[k].kind \in {"not_found", "error"}}
StepRaised == exc # NoExc

\* what main promises of a finished run
ExitContract ==
    /\ exit_status \in {Some(0), Some(1)}
    /\ exit_status = Some(1) <=> (~env.exists \/ StepRaised)
    /\ exit_status = Some(1) => Cardinality(ErrorsPrinted) = 1
    /\ exit_status = Some(0) => ErrorsPrinted = {}
    /\ ~env.exists =>
          /\ printed = <<[kind |-> "not_found", arg |-> argv.workflow_file]>>
          /\ workflow = None /\ Vertices = {} /\ figures = 0 /\ saved = {}
          /\ ~StepRaised

\* C5 (as claimed): every run of main ends with status 1 and one printed error
\* exactly when the input path does not exist or a pipeline step raised, and
\* with status 0 otherwise.
C5_ExitOneOrZero == Exited => ExitContract

\* C5 (amended): every run of main whose command line the argument parser
\* accepts ends with status 1 and one printed error exactly when the input path
\* does not exist (the message holds the path, nothing was loaded, built or
\* drawn) or a pipeline step raised, and with status 0 otherwise; a rejected
\* command line ends with the parser's status 2 before the path is looked at.
C5_ExitContractWhenParsed ==
    Exited =>
        IF argv.ok
        THEN ExitContract
        ELSE exit_status = Some(UsageStatus) /\ workflow = None /\ ErrorsPrinted = {}

\* C5 witness: a run that a raising draw step ended with status 1
C5_Witness ==
    /\ Exited /\ argv.ok /\ env.exists
    /\ exc.type = "KeyError" /\ exc.at = "draw_labels"
    /\ exit_status = Some(1)

\* the name each input path is expected to give
ExpectedName(path) ==
    CASE path = PathFlow -> <<"f", "l", "o", "w">> \o Suffix
      [] path = PathDirFlow -> <<"f", "l", "o", "w">> \o Suffix
      [] path = PathNoExt -> <<"w", "f">> \o Suffix
      [] path = PathDots -> <<"a", ".", "b">> \o Suffix
      [] path = PathHidden -> <<".", "j", "s", "o", "n">> \o Suffix

\* visualize_workflow_file has called visualize_workflow
HandedOver == entry = "main" /\ workflow # None /\ pc # "loaded"

\* C6: the output path handed to visualize_workflow is
\* <basename without extension>_visualization.png exactly when no output path
\* was given (None or the empty string) and show is false; otherwise it is the
\* path given; and with show true and no output path no file is saved.
C6_DefaultOutputOnlyWhenHidden ==
    HandedOver =>
        /\ show = ~argv.no_show
        /\ IF ~Truthy(argv.output) /\ argv.no_show
           THEN output_file = Some(ExpectedName(argv.workflow_file))
           ELSE output_file = argv.output
        /\ (~Truthy(argv.output) /\ ~argv.no_show) => saved = {}
        /\ saved \subseteq (IF Truthy(output_file) THEN {output_file[1]} ELSE {})

\* C6 witness: --no-show without -o on flow.json saved flow_visualization.png
C6_Witness ==
    /\ HandedOver
    /\ argv.workflow_file = PathFlow /\ argv.output = None /\ argv.no_show
    /\ saved = {<<"f", "l", "o", "w">> \o Suffix}
    /\ exit_status = Some(0)

FirstBadRecord ==
    CHOOSE k \in 1..Len(Nodes) :
        /\ ~({"id", "type"} \subseteq DOMAIN Nodes[k])
        /\ \A j \in 1..(k - 1) : {"id", "type"} \subseteq DOMAIN Nodes[j]

C8_VerticesAreNodeIds ==
    ( /\ workflow # None
      /\ \A k \in 1..Len(Nodes) : "id" \in DOMAIN Nodes[k]
      /\ \A a, b \in 1..Len(Nodes) : a # b => Nodes[a].id # Nodes[b].id
      /\ \A a \in 1..Len(Connections) :
            /\ Connections[a].source \in RecordIds
            /\ \A b \in 1..Len(Connections[a].targets) :
                  LET t == Connections[a].targets[b]
                  IN t.kind = "dict" => t.node \in RecordIds
      /\ pc = "parse_edges" \/ pc = "built" \/ (pc = "raised" /\ exc.at = "parse_edges") )
    => /\ Vertices = RecordIds
       /\ Cardinality(Vertices) = Len(Nodes)

\* C8 witness: three records, and an edge between two of them was added
C8_Witness ==
    /\ pc = "built"
    /\ Len(Nodes) = 3
    /\ Vertices = {"1", "2", "3"}
    /\ Edges = {<<"1", "2">>}

\* C9 (as claimed): draw with show false leaves no figure open, however it ends.
C9_NoFigureLeftOpen ==
    (~show /\ entry # "parse_workflow" /\ pc \in {"drawn", "raised"}) => figures = 0

\* C10: a connection naming an id that has no node record (in a document whose
\* node records and target references are otherwise well formed) is not
\* rejected by parse_workflow; the id becomes a vertex with no attribute; and
\* draw then fails on the missing label or a missing position, never reaching
\* the steps after the label step.
C10_DanglingFailsInDraw ==
    ( /\ workflow # None
      /\ RecordsWellFormed /\ TargetsFlat
      /\ \E a \in 1..Len(Connections) :
            /\ Connections[a].targets # <<>>
            /\ \/ Connections[a].source \notin RecordIds
               \/ \E b \in 1..Len(Connections[a].targets) :
                     Connections[a].targets[b].node \notin RecordIds )
    => /\ pc = "raised" =>
            /\ exc.at \in {"draw_edges", "draw_nodes", "draw_labels"}
            /\ exc.what \in {"label", "position"}
            /\ exc.what = "label" <=> Vertices \subseteq DOMAIN pos
       /\ pc \notin {"draw_edge_labels", "save", "show", "drawn", "exit"}
       /\ labels = None /\ saved = {}
       /\ ~InParse =>
            \A a \in 1..Len(Connections) : \A b \in 1..Len(Connections[a].targets) :
                \A d \in {Connections[a].source, Connections[a].targets[b].node} \ RecordIds :
                    d \in Vertices /\ DOMAIN graph_nodes[d] = {}

\* C10 witness: the build completed with the attribute-less vertex "9", the
\* spring layout placed it, and the label step failed
C10_Witness ==
    /\ pc = "raised" /\ exc.what = "label" /\ exc.at = "draw_labels"
    /\ "9" \in Vertices /\ DOMAIN graph_nodes["9"] = {}
    /\ "9" \in DOMAIN pos

====
